---- MODULE Spec2Model ----
(***************************************************************************)
(* Delegation lifecycle of the Solana wallet delegation service:           *)
(* DelegationService (services/delegation) over PolicyService and the      *)
(* custody platform's API client.  The service is asynchronous single-     *)
(* threaded code: every action below is the code that runs between two     *)
(* suspensions at a remote call, and the remote call's outcome (success or *)
(* a thrown error) is chosen when its response arrives.                    *)
(***************************************************************************)
EXTENDS Integers, Sequences, FiniteSets, TLC

\* ------------------------------------------------------------------ bounds
MaxPolicies == 2      \* createPolicy calls the platform accepts in one run
MaxTicks == 2         \* clock advances in one run
MaxUpdates == 2       \* updateQuotaUsage calls that hit a record in one run
MaxListLen == 2       \* entries in a scope's permissions, programs and tokens

\* ------------------------------------------------------- program constants
MinAgentIdLength == 10
MsPerSecond == 1000
MaxInstructions == 10
TickMs == MsPerSecond \div 2

Tasks == {1, 2}
AgentIds == {"bot", "agent-007", "agent-0001"}
Durations == {0, 1}
Amounts == {1, 2}
Periods == {"daily", "weekly", "monthly"}
Undefined == -1
LimitValues == {1, 2}
None == <<"none", 0>>
DelegationIds == {<<"k", n>> : n \in 1..MaxPolicies} \cup {<<"p", 1>>}
Limits == [daily : LimitValues, weekly : LimitValues, monthly : {Undefined, 1}]
QuotaDurations == {1}
UsageAmounts == {1}
UsagePeriods == {"daily"}
\* getActiveDelegations' optional argument: left out, the empty string, an id.
OrganizationIds == {<<>>, <<"">>, <<"org-1">>}
Idle == [op |-> "idle"]

\* Sequences over S of length at most n.
SeqUpTo(S, n) == UNION {[1..k -> S] : k \in 0..n}

\* The scopes handed to the condition compiler.
Permissions ==
    {[action |-> "TRANSFER", targetAccount |-> "ANY"],
     [action |-> "TRANSFER", targetAccount |-> "TRADING"],
     [action |-> "SWAP", targetAccount |-> "ANY"],
     [action |-> "BURN", targetAccount |-> "ANY"]}
Programs == {"Prog1", "Prog2"}
Tokens == {"Mint1"}
PerTransaction == {5}
Scopes ==
    [permissions : SeqUpTo(Permissions, MaxListLen),
     programs : SeqUpTo(Programs, MaxListLen),
     tokens : SeqUpTo(Tokens, MaxListLen),
     limits : [perTransaction : PerTransaction],
     duration : Durations]
NotCompiled == <<>>

\* The scope the lifecycle's requests carry, but for the duration asked for.
StandingScope ==
    [permissions |-> <<[action |-> "TRANSFER", targetAccount |-> "ANY"]>>,
     programs |-> <<>>, tokens |-> <<>>,
     limits |-> [perTransaction |-> 5], duration |-> 1]

VARIABLES
    activeDelegations,  \* the Map id -> DelegatedKey, in insertion order
    livePolicies,       \* policy ids live at the custody platform
    liveKeys,           \* API key ids live at the custody platform
    policyCount,        \* policies the platform has created so far
    keyCount,           \* API keys the platform has created so far
    now,                \* Date.now(), in milliseconds
    tasks,              \* the call in flight in each task: its position and locals
    last,               \* the call that returned last, with what it returned
    updates,            \* updateQuotaUsage calls that changed a counter
    createdFor,         \* history: <<key id, policy id, policy condition>> of one request
    removed,            \* history: ids whose record was deleted from the Map
    reported,           \* history: the amounts reported for each id in the Map, by period
    scope,              \* the DelegationScope of the requests and of the compiler
    condition           \* the condition compiled from it

vars == <<activeDelegations, livePolicies, liveKeys, policyCount, keyCount,
          now, tasks, last, updates, createdFor, removed, reported, scope, condition>>

\* ------------------------------------------------------ the Map operations
Ids(m) == {m[i].id : i \in 1..Len(m)}

MapHas(m, id) == \E i \in 1..Len(m) : m[i].id = id

IndexOf(m, id) == CHOOSE i \in 1..Len(m) : m[i].id = id

MapGet(m, id) == m[IndexOf(m, id)]

MapSet(m, d) ==
    IF MapHas(m, d.id) THEN [m EXCEPT ![IndexOf(m, d.id)] = d] ELSE Append(m, d)

MapDelete(m, id) == SelectSeq(m, LAMBDA d : d.id # id)

\* Mutant: the loop walks the Map by a plain index that deletions do not move.
AdjustIter_Stale(f, m, deleted) == f

\* A live Map iterator is the index of the entry it visits next; entries
\* deleted before that index move it back.
AdjustIter(f, m, deleted) ==
    IF f.op = "emergency"
    THEN [f EXCEPT !.iter =
            @ - Cardinality({i \in 1..Len(m) : i < @ /\ m[i].id \in deleted})]
    ELSE f

\* ------------------------------------------------- buildConditionFromScope
\* The condition is the list `conditions` that the code joins with ' && ';
\* every clause is kept as a record of what its text says.
SwapProgram == "9WzDXwBbmkg8ZTbNMqUxvQRAyrZzDsGYdLVL9zYtAWWM"
StakeProgram == "Stake11111111111111111111111111111111111111"
TokenProgram == "TokenkegQfeZyiNwAJbNbGKPFXCWuBvf9Ss623VQ5DA"

\* The clause one permission is mapped to.
PermissionCondition(permission, s) ==
    CASE permission.action = "TRANSFER" ->
            [kind |-> "anyTransferAmountAtMost", max |-> s.limits.perTransaction]
      [] permission.action = "SWAP" ->
            [kind |-> "anyInstructionProgramIn", list |-> <<SwapProgram>>]
      [] permission.action = "STAKE" ->
            [kind |-> "anyInstructionProgramIs", program |-> StakeProgram]
      [] permission.action = "MINT_NFT" ->
            [kind |-> "anyInstructionProgramIsWithData0", program |-> TokenProgram]
      [] OTHER -> [kind |-> "false"]

\* The parenthesised ' || ' join of the permission clauses.
PermissionGroup(s) ==
    [kind |-> "anyOf",
     alternatives |-> [i \in 1..Len(s.permissions) |->
                          PermissionCondition(s.permissions[i], s)]]

\* The clauses all but the time restriction.
ScopeClauses(s) ==
    <<[kind |-> "instructionCountAtMost", max |-> MaxInstructions]>>
    \o (IF Len(s.permissions) > 0 THEN <<PermissionGroup(s)>> ELSE <<>>)
    \o (IF Len(s.programs) > 0
        THEN <<[kind |-> "allInstructionProgramsIn", list |-> s.programs]>>
        ELSE <<>>)
    \o (IF Len(s.tokens) > 0
        THEN <<[kind |-> "allTransferMintsIn", list |-> s.tokens]>>
        ELSE <<>>)

\* Mutant: the time restriction holds the duration, not a point in time.
buildConditionFromScope_DurationOnly(s) ==
    ScopeClauses(s) \o <<[kind |-> "nowBefore", seconds |-> s.duration]>>

\* Mutant: the clock's seconds are rounded up instead of down.
buildConditionFromScope_CeilSeconds(s) ==
    ScopeClauses(s)
    \o <<[kind |-> "nowBefore",
          seconds |-> ((now + MsPerSecond - 1) \div MsPerSecond) + s.duration]>>

buildConditionFromScope(s) ==
    <<[kind |-> "instructionCountAtMost", max |-> MaxInstructions]>>
    \o (IF Len(s.permissions) > 0 THEN <<PermissionGroup(s)>> ELSE <<>>)
    \o (IF Len(s.programs) > 0
        THEN <<[kind |-> "allInstructionProgramsIn", list |-> s.programs]>>
        ELSE <<>>)
    \o (IF Len(s.tokens) > 0
        THEN <<[kind |-> "allTransferMintsIn", list |-> s.tokens]>>
        ELSE <<>>)
    \o <<[kind |-> "nowBefore", seconds |-> (now \div MsPerSecond) + s.duration]>>

\* The compiler applied to the scope at hand.
BuildConditionFromScope ==
    /\ condition' = buildConditionFromScope(scope)
    /\ UNCHANGED <<activeDelegations, livePolicies, liveKeys, policyCount, keyCount,
                   now, tasks, last, updates, createdFor, removed, reported, scope>>

\* ------------------------------------------------------------- verifyAgent
\* Mutant: the length check is off by one.
verifyAgent_OffByOne(agentId) ==
    IF Len(agentId) < MinAgentIdLength - 1
    THEN [isValid |-> FALSE]
    ELSE [isValid |-> TRUE, reputation |-> 85]

verifyAgent(agentId) ==
    IF Len(agentId) < MinAgentIdLength
    THEN [isValid |-> FALSE]
    ELSE [isValid |-> TRUE, reputation |-> 85]

\* History: the amounts reported for an id are kept while its record is in
\* the Map m.
NothingReported == [p \in Periods |-> 0]

Forget(r, m) == [id \in DelegationIds |-> IF id \in Ids(m) THEN r[id] ELSE NothingReported]

\* ------------------------------------------------------- returning a call
Call(api, id, ok) == [api |-> api, id |-> id, ok |-> ok]

\* What an asynchronous call hands back: its result, with the remote calls it
\* made and the Map as it was when the call started.
Returned(f, result) ==
    [op |-> f.op, args |-> f.args, result |-> result, calls |-> f.calls,
     pre |-> f.pre, prev |-> f.prev]

\* History: whether the call now made for `id` comes right after a
\* revokeDelegation call for the same id, and what that call returned.
NotAgain == [again |-> FALSE]

Previous(id) ==
    IF last.op = "revoke" /\ last.args.id = id
    THEN [again |-> TRUE, result |-> last.result, found |-> last.calls # <<>>]
    ELSE NotAgain

\* Task t takes frame f (Idle when its call returns) and the Map becomes m,
\* the entries with an id in `deleted` having been removed from it.
Step(t, f, m, deleted) ==
    /\ activeDelegations' = m
    /\ removed' = removed \cup (Ids(activeDelegations) \ Ids(m))
    /\ tasks' = [u \in Tasks |->
                    IF u = t THEN f
                    ELSE AdjustIter(tasks[u], activeDelegations, deleted)]

NoReturn == [op |-> "none"]

\* Task t suspends at a remote call: nothing is returned to a caller.
Suspend(t, f, m, deleted) ==
    /\ Step(t, f, m, deleted)
    /\ last' = NoReturn

Return(t, f, result, m, deleted) ==
    /\ last' = Returned(f, result)
    /\ Step(t, Idle, m, deleted)

\* ------------------------------------------------ processDelegationRequest
\* request.scope: the scope at hand, for the duration asked for.
RequestScope(duration) == [scope EXCEPT !.duration = duration]

ProcessFrame(agentId, duration) ==
    [op |-> "process", pc |-> "awaitCreatePolicy",
     args |-> [agentId |-> agentId, duration |-> duration],
     calls |-> <<>>, pre |-> activeDelegations, prev |-> NotAgain,
     policy |-> None, condition |-> NotCompiled]

\* The call up to its first remote call: verifyAgent, then the condition is
\* compiled and createPolicy is sent with it.
ProcessDelegationRequest(t, agentId, duration) ==
    /\ tasks[t] = Idle
    /\ policyCount < MaxPolicies
    /\ IF ~verifyAgent(agentId).isValid
       THEN Return(t, ProcessFrame(agentId, duration),
                   [status |-> "REJECTED", reason |-> "Invalid or unverified agent"],
                   activeDelegations, {})
       ELSE Suspend(t, [ProcessFrame(agentId, duration) EXCEPT
                            !.condition = buildConditionFromScope(RequestScope(duration))],
                    activeDelegations, {})
    /\ UNCHANGED <<livePolicies, liveKeys, policyCount, keyCount, now, updates, createdFor,
                 reported, scope, condition>>

\* Mutant: the catch block's answer carries no reason.
InternalError_NoReason == [status |-> "REJECTED"]

InternalError == [status |-> "REJECTED", reason |-> "Internal error processing request"]

\* PolicyService.createPolicy answers: the policy exists and createApiKey is
\* sent, or the call threw and the catch block returns REJECTED.
CreatePolicyReturns(t, ok) ==
    LET f == tasks[t]
        pid == <<"p", policyCount + 1>>
    IN  /\ f.op = "process" /\ f.pc = "awaitCreatePolicy"
        /\ IF ok
           THEN /\ policyCount' = policyCount + 1
                /\ livePolicies' = livePolicies \cup {pid}
                /\ Suspend(t, [f EXCEPT !.pc = "awaitCreateApiKey", !.policy = pid,
                                     !.calls = Append(@, Call("createPolicy", pid, TRUE))],
                        activeDelegations, {})
           ELSE /\ Return(t, [f EXCEPT !.calls = Append(@, Call("createPolicy", None, FALSE))],
                          InternalError, activeDelegations, {})
                /\ UNCHANGED <<policyCount, livePolicies>>
        /\ UNCHANGED <<liveKeys, keyCount, now, updates, createdFor,
                 reported, scope, condition>>

\* Mutant: every record is stored under the id of the first API key.
DelegatedKey_FixedId(policyKeyId, agentId, permissions, expiresAt) ==
    [id |-> <<"k", 1>>, policyId |-> policyKeyId, agentId |-> agentId,
     permissions |-> permissions, expiresAt |-> expiresAt, isActive |-> TRUE,
     quotaUsed |-> [daily |-> 0, weekly |-> 0, monthly |-> 0]]

\* Mutant: the record does not keep the scope's permissions.
DelegatedKey_DropsPermissions(policyKeyId, agentId, permissions, expiresAt) ==
    [id |-> policyKeyId, policyId |-> policyKeyId, agentId |-> agentId,
     permissions |-> <<>>, expiresAt |-> expiresAt, isActive |-> TRUE,
     quotaUsed |-> [daily |-> 0, weekly |-> 0, monthly |-> 0]]

\* The record processDelegationRequest stores for the key createApiKey returned.
DelegatedKey(policyKeyId, agentId, permissions, expiresAt) ==
    [id |-> policyKeyId, policyId |-> policyKeyId, agentId |-> agentId,
     permissions |-> permissions, expiresAt |-> expiresAt, isActive |-> TRUE,
     quotaUsed |-> [daily |-> 0, weekly |-> 0, monthly |-> 0]]

\* apiClient.createApiKey answers: the Delegation is stored under the API key's
\* id and APPROVED is returned, or the call threw and REJECTED is returned.
CreateApiKeyReturns(t, ok) ==
    LET f == tasks[t]
        kid == <<"k", keyCount + 1>>
        expiresAt == now + f.args.duration * MsPerSecond
    IN  /\ f.op = "process" /\ f.pc = "awaitCreateApiKey"
        /\ IF ok
           THEN /\ keyCount' = keyCount + 1
                /\ liveKeys' = liveKeys \cup {kid}
                /\ createdFor' = createdFor \cup {<<kid, f.policy, f.condition>>}
                /\ Return(t, [f EXCEPT !.calls = Append(@, Call("createApiKey", kid, TRUE))],
                          [status |-> "APPROVED", policyKeyId |-> kid, expiresAt |-> expiresAt],
                          MapSet(activeDelegations,
                                 DelegatedKey(kid, f.args.agentId,
                                              RequestScope(f.args.duration).permissions,
                                              expiresAt)),
                          {})
           ELSE /\ Return(t, [f EXCEPT !.calls = Append(@, Call("createApiKey", None, FALSE))],
                          InternalError, activeDelegations, {})
                /\ UNCHANGED <<keyCount, liveKeys, createdFor>>
        /\ UNCHANGED <<livePolicies, policyCount, now, updates, reported, scope, condition>>

\* -------------------------------------------------------- revokeDelegation
RevokeFrame(op, id) ==
    [op |-> op, pc |-> "start", args |-> [id |-> id], calls |-> <<>>,
     pre |-> activeDelegations, prev |-> Previous(id), id |-> None, policyId |-> None,
     iter |-> 1, revoked |-> 0, failed |-> 0]

\* revokeDelegation up to its first remote call, in frame f: the record is
\* looked up and deleteApiKey is sent for the delegation id.
RevokeStart(f, m, delegationId) ==
    [f EXCEPT !.pc = "awaitDeleteApiKey", !.id = delegationId,
              !.policyId = MapGet(m, delegationId).policyId]

\* emergencyRevokeAll's loop from the point where one revokeDelegation has
\* answered: the iterator yields the next entry and revokeDelegation starts
\* on it, or the loop is over and the counts are returned.
EmergencyLoop(t, f, m, deleted) ==
    LET g == AdjustIter(f, activeDelegations, deleted)
    IN  IF g.iter <= Len(m)
        THEN /\ Suspend(t, RevokeStart([g EXCEPT !.iter = @ + 1], m, m[g.iter].id), m, deleted)
        ELSE Return(t, g, [revoked |-> g.revoked, failed |-> g.failed], m, deleted)

\* revokeDelegation answers `success` in frame f: to its caller, or to the
\* loop of emergencyRevokeAll, which counts it and goes on.
RevokeAnswers(t, f, success, m, deleted) ==
    IF f.op = "revoke"
    THEN Return(t, f, success, m, deleted)
    ELSE EmergencyLoop(t,
                       IF success THEN [f EXCEPT !.revoked = @ + 1]
                                  ELSE [f EXCEPT !.failed = @ + 1],
                       m, deleted)

\* Mutant: the early return for an id that is not in the Map is missing.
RevokeDelegation_NoLookup(t, delegationId) ==
    /\ tasks[t] = Idle
    /\ Suspend(t, [RevokeFrame("revoke", delegationId) EXCEPT
                       !.pc = "awaitDeleteApiKey", !.id = delegationId,
                       !.policyId = delegationId],
               activeDelegations, {})
    /\ UNCHANGED <<livePolicies, liveKeys, policyCount, keyCount, now, updates, createdFor,
                 reported, scope, condition>>

RevokeDelegation(t, delegationId) ==
    /\ tasks[t] = Idle
    /\ IF ~MapHas(activeDelegations, delegationId)
       THEN Return(t, RevokeFrame("revoke", delegationId), FALSE, activeDelegations, {})
       ELSE /\ Suspend(t, RevokeStart(RevokeFrame("revoke", delegationId),
                                   activeDelegations, delegationId),
                    activeDelegations, {})
    /\ UNCHANGED <<livePolicies, liveKeys, policyCount, keyCount, now, updates, createdFor,
                 reported, scope, condition>>

\* apiClient.deleteApiKey answers: the key is gone and deletePolicy is sent
\* for the record's policyId, or the call threw and revokeDelegation's catch
\* block answers false.
DeleteApiKeyReturns(t, ok) ==
    LET f == tasks[t]
        g == [f EXCEPT !.calls = Append(@, Call("deleteApiKey", f.id, ok))]
    IN  /\ f.op \in {"revoke", "emergency"} /\ f.pc = "awaitDeleteApiKey"
        /\ ok => f.id \in liveKeys
        /\ IF ok
           THEN /\ liveKeys' = liveKeys \ {f.id}
                /\ Suspend(t, [g EXCEPT !.pc = "awaitDeletePolicy"], activeDelegations, {})
           ELSE /\ RevokeAnswers(t, g, FALSE, activeDelegations, {})
                /\ UNCHANGED liveKeys
        /\ UNCHANGED <<livePolicies, policyCount, keyCount, now, updates, createdFor,
                 reported, scope, condition>>

\* Mutant: revokeDelegation answers true without removing the record.
DeletePolicyReturns_KeepsRecord(t, ok) ==
    LET f == tasks[t]
        g == [f EXCEPT !.calls = Append(@, Call("deletePolicy", f.policyId, ok))]
    IN  /\ f.op \in {"revoke", "emergency"} /\ f.pc = "awaitDeletePolicy"
        /\ ok => f.policyId \in livePolicies
        /\ livePolicies' = IF ok THEN livePolicies \ {f.policyId} ELSE livePolicies
        /\ RevokeAnswers(t, g, TRUE, activeDelegations, {})
        /\ UNCHANGED <<liveKeys, policyCount, keyCount, now, updates, createdFor,
                 reported, scope, condition>>

\* PolicyService.deletePolicy answers true or false (it catches the platform's
\* error); revokeDelegation ignores the answer, removes the record and
\* answers true.
DeletePolicyReturns(t, ok) ==
    LET f == tasks[t]
        g == [f EXCEPT !.calls = Append(@, Call("deletePolicy", f.policyId, ok))]
    IN  /\ f.op \in {"revoke", "emergency"} /\ f.pc = "awaitDeletePolicy"
        /\ ok => f.policyId \in livePolicies
        /\ livePolicies' = IF ok THEN livePolicies \ {f.policyId} ELSE livePolicies
        /\ RevokeAnswers(t, g, TRUE, MapDelete(activeDelegations, f.id), {f.id})
        /\ reported' = Forget(reported, MapDelete(activeDelegations, f.id))
        /\ UNCHANGED <<liveKeys, policyCount, keyCount, now, updates, createdFor,
                       scope, condition>>

\* ------------------------------------------------------ emergencyRevokeAll
EmergencyRevokeAll(t) ==
    /\ tasks[t] = Idle
    /\ EmergencyLoop(t, [RevokeFrame("emergency", None) EXCEPT !.args = <<>>],
                     activeDelegations, {})
    /\ UNCHANGED <<livePolicies, liveKeys, policyCount, keyCount, now, updates, createdFor,
                 reported, scope, condition>>

\* ------------------------------------------- the synchronous operations
\* A synchronous operation returns in the step that calls it; `last` keeps
\* the id it was called for and its result.
ReturnSync(op, args, result, m, deleted) ==
    /\ last' = [op |-> op, args |-> args, result |-> result, calls |-> <<>>]
    /\ activeDelegations' = m
    /\ removed' = removed \cup (Ids(activeDelegations) \ Ids(m))
    /\ tasks' = [u \in Tasks |-> AdjustIter(tasks[u], activeDelegations, deleted)]

\* Mutant: the amount replaces the counter instead of being added to it.
AddQuota_Overwrite(d, amount, period) ==
    [d EXCEPT !.quotaUsed[period] = amount]

\* Mutant: the amount is added to all three counters.
AddQuota_AllPeriods(d, amount, period) ==
    [d EXCEPT !.quotaUsed = [p \in Periods |-> @[p] + amount]]

AddQuota(d, amount, period) ==
    [d EXCEPT !.quotaUsed[period] = @ + amount]

UpdateQuotaUsage(delegationId, amount, period) ==
    LET op == "updateQuotaUsage"
        args == [id |-> delegationId]
    IN  /\ IF ~MapHas(activeDelegations, delegationId)
           THEN /\ ReturnSync(op, args, FALSE, activeDelegations, {})
                /\ UNCHANGED <<updates, reported>>
           ELSE /\ updates < MaxUpdates
                /\ updates' = updates + 1
                /\ reported' = [reported EXCEPT ![delegationId][period] = @ + amount]
                /\ ReturnSync(op, args, TRUE,
                              MapSet(activeDelegations,
                                     AddQuota(MapGet(activeDelegations, delegationId),
                                              amount, period)),
                              {})
        /\ UNCHANGED <<livePolicies, liveKeys, policyCount, keyCount, now, createdFor, scope, condition>>

\* Mutant: the three comparisons are joined by && instead of ||.
isQuotaExceeded_AllDimensions(m, delegationId, limits) ==
    IF ~MapHas(m, delegationId)
    THEN TRUE
    ELSE LET delegation == MapGet(m, delegationId)
         IN  /\ delegation.quotaUsed.daily >= limits.daily
             /\ delegation.quotaUsed.weekly >= limits.weekly
             /\ (limits.monthly # Undefined
                 /\ delegation.quotaUsed.monthly >= limits.monthly)

isQuotaExceeded(m, delegationId, limits) ==
    IF ~MapHas(m, delegationId)
    THEN TRUE
    ELSE LET delegation == MapGet(m, delegationId)
         IN  \/ delegation.quotaUsed.daily >= limits.daily
             \/ delegation.quotaUsed.weekly >= limits.weekly
             \/ (limits.monthly # Undefined
                 /\ delegation.quotaUsed.monthly >= limits.monthly)

IsQuotaExceeded(delegationId, limits) ==
    /\ ReturnSync("isQuotaExceeded", [id |-> delegationId],
                  isQuotaExceeded(activeDelegations, delegationId, limits),
                  activeDelegations, {})
    /\ UNCHANGED <<livePolicies, liveKeys, policyCount, keyCount, now, updates, createdFor,
                 reported, scope, condition>>

\* An optional string argument is truthy when it is given and not empty.
Truthy(arg) == arg # <<>> /\ arg[1] # ""

getActiveDelegations(m, organizationId) ==
    IF Truthy(organizationId)
    THEN m
    ELSE SelectSeq(m, LAMBDA d : d.isActive /\ d.expiresAt > now)

GetActiveDelegations(organizationId) ==
    /\ ReturnSync("getActiveDelegations", [organizationId |-> organizationId],
                  getActiveDelegations(activeDelegations, organizationId),
                  activeDelegations, {})
    /\ UNCHANGED <<livePolicies, liveKeys, policyCount, keyCount, now, updates, createdFor,
                   reported, scope, condition>>

\* Mutant: a record that expires at this very millisecond is not collected.
Expired_Strict(m) == {m[i].id : i \in {j \in 1..Len(m) : m[j].expiresAt < now}}

\* cleanupExpiredDelegations: the expired ids are collected, then deleted from
\* the Map; nothing is awaited and nothing is sent to the platform.
Expired(m) == {m[i].id : i \in {j \in 1..Len(m) : m[j].expiresAt <= now}}

CleanupExpiredDelegations ==
    /\ ReturnSync("cleanupExpiredDelegations", <<>>, "void",
                  SelectSeq(activeDelegations, LAMBDA d : d.id \notin Expired(activeDelegations)),
                  Expired(activeDelegations))
    /\ reported' = Forget(reported, SelectSeq(activeDelegations,
                                              LAMBDA d : d.id \notin Expired(activeDelegations)))
    /\ UNCHANGED <<livePolicies, liveKeys, policyCount, keyCount, now, updates, createdFor,
                   scope, condition>>

\* ------------------------------------------------------------------- clock
Tick ==
    /\ now < MaxTicks * TickMs
    /\ now' = now + TickMs
    /\ last' = NoReturn
    /\ UNCHANGED <<activeDelegations, livePolicies, liveKeys, policyCount, keyCount,
                   tasks, updates, createdFor, removed, reported, scope, condition>>

Init ==
    /\ activeDelegations = <<>>
    /\ livePolicies = {}
    /\ liveKeys = {}
    /\ policyCount = 0
    /\ keyCount = 0
    /\ now = 0
    /\ tasks = [t \in Tasks |-> Idle]
    /\ last = NoReturn
    /\ updates = 0
    /\ createdFor = {}
    /\ removed = {}
    /\ reported = [id \in DelegationIds |-> NothingReported]
    /\ scope = StandingScope
    /\ condition = NotCompiled

\* The callers make one call at a time: a call starts when none is in flight.
Quiet == \A t \in Tasks : tasks[t] = Idle

\* The lifecycle: grants, revocations, the kill switch, the expiry sweep, time.
Next ==
    \E t \in {1} :
        \/ \E a \in AgentIds, d \in Durations : ProcessDelegationRequest(t, a, d)
        \/ \E ok \in BOOLEAN : CreatePolicyReturns(t, ok)
        \/ \E ok \in BOOLEAN : CreateApiKeyReturns(t, ok)
        \/ \E id \in DelegationIds : RevokeDelegation(t, id)
        \/ \E ok \in BOOLEAN : DeleteApiKeyReturns(t, ok)
        \/ \E ok \in BOOLEAN : DeletePolicyReturns(t, ok)
        \/ EmergencyRevokeAll(t)
        \/ Quiet /\ CleanupExpiredDelegations
        \/ Tick

Spec == Init /\ [][Next]_vars

\* Every remote call is answered (the platform client times out otherwise).
Fairness ==
    /\ WF_vars(\E ok \in BOOLEAN : CreatePolicyReturns(1, ok))
    /\ WF_vars(\E ok \in BOOLEAN : CreateApiKeyReturns(1, ok))
    /\ WF_vars(\E ok \in BOOLEAN : DeleteApiKeyReturns(1, ok))
    /\ WF_vars(\E ok \in BOOLEAN : DeletePolicyReturns(1, ok))

SpecLive == Spec /\ Fairness

\* The quota ledger: grants (whose remote calls succeed) and revocations, with
\* usage reported and checked.
NextQuota ==
    \E t \in {1} :
        \/ \E a \in AgentIds, d \in QuotaDurations : ProcessDelegationRequest(t, a, d)
        \/ \E ok \in {TRUE} : CreatePolicyReturns(t, ok)
        \/ \E ok \in {TRUE} : CreateApiKeyReturns(t, ok)
        \/ \E id \in DelegationIds : RevokeDelegation(t, id)
        \/ \E ok \in BOOLEAN : DeleteApiKeyReturns(t, ok)
        \/ \E ok \in BOOLEAN : DeletePolicyReturns(t, ok)
        \/ Quiet /\ \E id \in DelegationIds, a \in Amounts, p \in Periods :
                       UpdateQuotaUsage(id, a, p)
        \/ Quiet /\ \E id \in DelegationIds, l \in Limits : IsQuotaExceeded(id, l)

SpecQuota == Init /\ [][NextQuota]_vars

\* Usage and expiry: grants (whose remote calls succeed), usage reported, the
\* clock, the expiry sweep and the listing of the active delegations.
NextSweep ==
    \/ \E a \in AgentIds, d \in Durations : ProcessDelegationRequest(1, a, d)
    \/ \E ok \in {TRUE} : CreatePolicyReturns(1, ok)
    \/ \E ok \in {TRUE} : CreateApiKeyReturns(1, ok)
    \/ Quiet /\ \E id \in DelegationIds, a \in UsageAmounts, p \in UsagePeriods :
                   UpdateQuotaUsage(id, a, p)
    \/ Quiet /\ CleanupExpiredDelegations
    \/ Quiet /\ \E o \in OrganizationIds : GetActiveDelegations(o)
    \/ Tick

SpecSweep == Init /\ [][NextSweep]_vars

\* A revocation racing the quota ledger: usage is reported whenever the
\* caller likes, also while a call is suspended at the platform.
NextRace ==
    \/ \E a \in AgentIds, d \in QuotaDurations : ProcessDelegationRequest(1, a, d)
    \/ \E ok \in {TRUE} : CreatePolicyReturns(1, ok)
    \/ \E ok \in {TRUE} : CreateApiKeyReturns(1, ok)
    \/ \E id \in DelegationIds : RevokeDelegation(1, id)
    \/ \E ok \in BOOLEAN : DeleteApiKeyReturns(1, ok)
    \/ \E ok \in BOOLEAN : DeletePolicyReturns(1, ok)
    \/ \E id \in DelegationIds, a \in UsageAmounts, p \in UsagePeriods : UpdateQuotaUsage(id, a, p)

SpecRace == Init /\ [][NextRace]_vars

\* Overlapping calls: a second caller revokes, or throws the kill switch,
\* while a call of the first is suspended at the platform; no grant starts
\* while the second caller's call is in flight.
NextOverlap ==
    \/ /\ tasks[2] = Idle
       /\ \E a \in AgentIds, d \in QuotaDurations : ProcessDelegationRequest(1, a, d)
    \/ \E ok \in BOOLEAN : CreatePolicyReturns(1, ok)
    \/ \E ok \in BOOLEAN : CreateApiKeyReturns(1, ok)
    \/ \E t \in Tasks, id \in DelegationIds : RevokeDelegation(t, id)
    \/ \E t \in Tasks, ok \in BOOLEAN : DeleteApiKeyReturns(t, ok)
    \/ \E t \in Tasks, ok \in BOOLEAN : DeletePolicyReturns(t, ok)
    \/ EmergencyRevokeAll(2)

SpecOverlap == Init /\ [][NextOverlap]_vars

\* Grants for any permission list: requests for the scope at hand, whose
\* remote calls succeed or fail, and the clock.
GrantScopes == {s \in Scopes : s.programs = <<>> /\ s.tokens = <<>>}

InitGrant ==
    /\ activeDelegations = <<>>
    /\ livePolicies = {}
    /\ liveKeys = {}
    /\ policyCount = 0
    /\ keyCount = 0
    /\ now = 0
    /\ tasks = [t \in Tasks |-> Idle]
    /\ last = NoReturn
    /\ updates = 0
    /\ createdFor = {}
    /\ removed = {}
    /\ reported = [id \in DelegationIds |-> NothingReported]
    /\ scope \in GrantScopes
    /\ condition = NotCompiled

NextGrant ==
    \/ \E a \in AgentIds : ProcessDelegationRequest(1, a, scope.duration)
    \/ \E ok \in BOOLEAN : CreatePolicyReturns(1, ok)
    \/ \E ok \in BOOLEAN : CreateApiKeyReturns(1, ok)
    \/ Tick

SpecGrant == InitGrant /\ [][NextGrant]_vars

\* The condition compiler on its own: any scope, compiled at any time.
InitCompile ==
    /\ activeDelegations = <<>>
    /\ livePolicies = {}
    /\ liveKeys = {}
    /\ policyCount = 0
    /\ keyCount = 0
    /\ now = 0
    /\ tasks = [t \in Tasks |-> Idle]
    /\ last = NoReturn
    /\ updates = 0
    /\ createdFor = {}
    /\ removed = {}
    /\ reported = [id \in DelegationIds |-> NothingReported]
    /\ scope \in Scopes
    /\ condition = NotCompiled

NextCompile ==
    \/ BuildConditionFromScope
    \/ Tick

SpecCompile == InitCompile /\ [][NextCompile]_vars

\* ================================================================ claims
Records(m) == {m[i] : i \in 1..Len(m)}

CallsOf(l, api) == {i \in 1..Len(l.calls) : l.calls[i].api = api}

InvalidAgent == [status |-> "REJECTED", reason |-> "Invalid or unverified agent"]

\* C1: a request whose agentId is shorter than 10 characters is answered
\* REJECTED "Invalid or unverified agent" in the step that makes it, with no
\* remote call, no record stored and the platform untouched; and a request is
\* at (or past) its createPolicy call only if its agentId passed verification.
C1_ShortAgentRejectedWithoutCalls ==
    /\ [](\A t \in Tasks :
            tasks[t].op = "process" => Len(tasks[t].args.agentId) >= MinAgentIdLength)
    /\ [](last.op = "process" /\ last.calls # <<>>
            => Len(last.args.agentId) >= MinAgentIdLength)
    /\ [][\A a \in AgentIds, d \in Durations :
            (Len(a) < MinAgentIdLength /\ ProcessDelegationRequest(1, a, d))
            => /\ last'.op = "process"
               /\ last'.result = InvalidAgent
               /\ last'.calls = <<>>
               /\ UNCHANGED <<activeDelegations, livePolicies, liveKeys,
                              policyCount, keyCount, createdFor>>]_vars

C1_Witness ==
    /\ last.op = "process"
    /\ Len(last.args.agentId) = MinAgentIdLength - 1
    /\ last.result = InvalidAgent
    /\ last.calls = <<>>
    /\ Len(activeDelegations) = 1

\* C2 (as claimed): when processDelegationRequest returns REJECTED, every
\* policy it created at the platform has been revoked there.
C2_RejectedLeavesNoPolicy ==
    (last.op = "process" /\ last.result.status = "REJECTED")
    => \A i \in CallsOf(last, "createPolicy") :
          last.calls[i].ok => last.calls[i].id \notin livePolicies

\* C3 (as claimed): the record stored by an approved request carries, as its
\* policyId, the id createPolicy returned for that request, and no two records
\* share a policyId.
C3_RecordOwnsCreatedPolicy ==
    /\ (last.op = "process" /\ last.result.status = "APPROVED")
       => \E i \in CallsOf(last, "createPolicy") :
             MapGet(activeDelegations, last.result.policyKeyId).policyId = last.calls[i].id
    /\ \A i, j \in 1..Len(activeDelegations) :
          activeDelegations[i].policyId = activeDelegations[j].policyId => i = j

\* C4 (as claimed): when revokeDelegation returns true the record is gone, its
\* API key is gone, and the policy created with that key is no longer live.
C4_RevokedMeansAllGone ==
    (last.op = "revoke" /\ last.result = TRUE)
    => /\ ~MapHas(activeDelegations, last.args.id)
       /\ last.args.id \notin liveKeys
       /\ \A g \in createdFor : g[1] = last.args.id => g[2] \notin livePolicies

\* C5: revokeDelegation on an id that is not in the Map returns false in the
\* step that calls it, makes no remote call, and leaves the Map (with every
\* quota counter) and the platform as they were.
C5_RevokeUnknownIsNoOp ==
    [][\A id \in DelegationIds :
        (~MapHas(activeDelegations, id) /\ RevokeDelegation(1, id))
        => /\ last'.op = "revoke"
           /\ last'.result = FALSE
           /\ last'.calls = <<>>
           /\ UNCHANGED <<activeDelegations, livePolicies, liveKeys, policyCount,
                          keyCount, updates, createdFor>>]_vars

C5_Witness ==
    /\ last.op = "revoke"
    /\ last.result = FALSE
    /\ last.calls = <<>>
    /\ ~MapHas(activeDelegations, last.args.id)
    /\ \E d \in Records(activeDelegations) : d.quotaUsed.daily > 0

\* The second of two revokeDelegation calls for one id, made back to back.
SecondRevoke ==
    /\ last.op = "revoke"
    /\ last.prev.again

RemoteFailed(l, d) ==
    \E i \in 1..Len(l.calls) :
        /\ ~l.calls[i].ok
        /\ \/ l.calls[i].api = "deleteApiKey" /\ l.calls[i].id = d.id
           \/ l.calls[i].api = "deletePolicy" /\ l.calls[i].id = d.policyId

\* C7 (as claimed): over N records of which M failed a remote deletion (of the
\* key or of the policy), emergencyRevokeAll returns {revoked: N-M, failed: M}.
C7_CountsRemoteFailures ==
    last.op = "emergency"
    => LET N == Len(last.pre)
           M == Cardinality({d \in Records(last.pre) : RemoteFailed(last, d)})
       IN  last.result = [revoked |-> N - M, failed |-> M]

\* C8 (as claimed): when emergencyRevokeAll returns, no record that was in the
\* Map when it was called is still in the Map.
C8_KillSwitchEmptiesTheMap ==
    last.op = "emergency"
    => \A d \in Records(last.pre) : ~MapHas(activeDelegations, d.id)

\* C9: emergencyRevokeAll, once called, returns its two counts whatever the
\* remote calls answer; it has then sent deleteApiKey exactly once for every
\* record that was in the Map, and for no other id, and has counted every
\* record as revoked or as failed.
C9_KillSwitchCompletes ==
    /\ [](last.op = "emergency"
          => /\ \A d \in Records(last.pre) :
                   Cardinality({i \in CallsOf(last, "deleteApiKey") :
                                   last.calls[i].id = d.id}) = 1
             /\ \A i \in CallsOf(last, "deleteApiKey") :
                   MapHas(last.pre, last.calls[i].id)
             /\ last.result.revoked + last.result.failed = Len(last.pre)
             /\ last.result.failed =
                   Cardinality({i \in CallsOf(last, "deleteApiKey") : ~last.calls[i].ok}))
    /\ ((\E t \in Tasks : tasks[t].op = "emergency") ~> (last.op = "emergency"))

C9_Witness ==
    /\ last.op = "emergency"
    /\ Len(last.pre) = 2
    /\ last.calls[1].api = "deleteApiKey" /\ ~last.calls[1].ok
    /\ last.result = [revoked |-> 1, failed |-> 1]

\* What the quota check is to return for id against limits l.
QuotaBreached(id, l) ==
    \/ id \notin Ids(activeDelegations)
    \/ \E d \in Records(activeDelegations) :
          /\ d.id = id
          /\ \/ d.quotaUsed.daily >= l.daily
             \/ d.quotaUsed.weekly >= l.weekly
             \/ (l.monthly # Undefined /\ d.quotaUsed.monthly >= l.monthly)

\* C10: isQuotaExceeded(id, limits) is true exactly when id is not in the
\* Map, or its daily, weekly or (if a monthly limit is given) monthly counter
\* has reached the limit; a call returns that value and changes nothing.
C10_QuotaExceededIffAnyBreach ==
    /\ [](\A id \in DelegationIds, l \in Limits :
            isQuotaExceeded(activeDelegations, id, l) = QuotaBreached(id, l))
    /\ [][last'.op = "isQuotaExceeded"
          => /\ \E l \in Limits : last'.result = QuotaBreached(last'.args.id, l)
             /\ UNCHANGED <<activeDelegations, livePolicies, liveKeys, policyCount,
                            keyCount, tasks, updates, createdFor>>]_vars

\* Only the daily counter of the record asked about has reached a limit.
C10_Witness ==
    /\ last.op = "isQuotaExceeded"
    /\ last.result = TRUE
    /\ \E d \in Records(activeDelegations) :
          /\ d.id = last.args.id
          /\ d.quotaUsed = [daily |-> 1, weekly |-> 0, monthly |-> 0]

\* Only daily usage has been reported for id since its approval.
OnlyDailyReported(id) ==
    /\ reported[id].weekly = 0
    /\ reported[id].monthly = 0

\* C11: for a record in the Map for which only daily amounts were reported
\* since its approval, isQuotaExceeded is true exactly when the sum of those
\* amounts has reached limits.daily; and an updateQuotaUsage call never turns
\* a true answer for its record back into false.
C11_DailyUsageAccumulates ==
    /\ [](\A id \in Ids(activeDelegations), l \in Limits :
            OnlyDailyReported(id)
            => (isQuotaExceeded(activeDelegations, id, l) = (reported[id].daily >= l.daily)))
    /\ [][(last'.op = "updateQuotaUsage" /\ last'.result = TRUE)
          => \A l \in Limits :
                isQuotaExceeded(activeDelegations, last'.args.id, l)
                => isQuotaExceeded(activeDelegations', last'.args.id, l)]_vars

\* Two daily amounts of 1 were reported for the only record, and the check
\* then answered true.
C11_Witness ==
    /\ last.op = "isQuotaExceeded"
    /\ last.result = TRUE
    /\ keyCount = 1
    /\ updates = 2
    /\ MapHas(activeDelegations, last.args.id)
    /\ reported[last.args.id] = [daily |-> 2, weekly |-> 0, monthly |-> 0]

\* What the call that just returned reported for id in period q.
JustReported(id, q) == reported'[id][q] - reported[id][q]

\* C12: updateQuotaUsage(id, amount, period) for an id in the Map returns
\* true and adds amount to that record's counter for period, leaving its
\* other counters and fields, every other record, the Map's keys and the
\* platform as they were; for an id not in the Map it returns false and
\* changes nothing.
C12_UpdateTouchesOneCounter ==
    [][last'.op = "updateQuotaUsage"
       => LET id == last'.args.id
              known == id \in Ids(activeDelegations)
          IN  /\ last'.result = known
              /\ known => \E a \in Amounts, p \in Periods :
                             reported' = [reported EXCEPT ![id][p] = @ + a]
              /\ ~known => UNCHANGED reported
              /\ Len(activeDelegations') = Len(activeDelegations)
              /\ \A i \in 1..Len(activeDelegations) :
                    LET d == activeDelegations[i]
                        e == activeDelegations'[i]
                    IN  IF d.id = id
                        THEN /\ \A q \in Periods :
                                   e.quotaUsed[q] = d.quotaUsed[q] + JustReported(id, q)
                             /\ [e EXCEPT !.quotaUsed = d.quotaUsed] = d
                        ELSE e = d
              /\ UNCHANGED <<livePolicies, liveKeys, policyCount, keyCount, now,
                             tasks, createdFor, removed>>]_vars

\* The second record's weekly counter was just raised by 2; the first record
\* keeps the daily amount reported for it before.
C12_Witness ==
    /\ last.op = "updateQuotaUsage"
    /\ last.result = TRUE
    /\ Len(activeDelegations) = 2
    /\ activeDelegations[2].id = last.args.id
    /\ activeDelegations[2].quotaUsed = [daily |-> 0, weekly |-> 2, monthly |-> 0]
    /\ activeDelegations[1].quotaUsed = [daily |-> 1, weekly |-> 0, monthly |-> 0]

\* C13: when cleanupExpiredDelegations has run, the Map holds no record with
\* expiresAt <= now, and holds exactly the records with expiresAt > now that
\* it held before, each as it was (quota counters included).
C13_SweepRemovesExactlyTheExpired ==
    [][last'.op = "cleanupExpiredDelegations"
       => /\ \A e \in Records(activeDelegations') : e.expiresAt > now'
          /\ \A d \in Records(activeDelegations) :
                d.expiresAt > now => d \in Records(activeDelegations')
          /\ Records(activeDelegations') \subseteq Records(activeDelegations)
          /\ UNCHANGED now]_vars

\* The sweep took a record away and kept one for which usage was reported.
C13_Witness ==
    /\ last.op = "cleanupExpiredDelegations"
    /\ removed # {}
    /\ Len(activeDelegations) = 1
    /\ activeDelegations[1].quotaUsed.daily = 1
    /\ keyCount = 2

\* C14 (as claimed): when cleanupExpiredDelegations has run, no record taken
\* out of the Map has its API key still live at the platform.
C14_SweptKeysAreDeleted ==
    last.op = "cleanupExpiredDelegations" => removed \cap liveKeys = {}

\* C15 (as claimed): whatever its argument, getActiveDelegations returns only
\* records with isActive true and expiresAt later than now.
C15_ListsOnlyUnexpired ==
    last.op = "getActiveDelegations"
    => \A i \in 1..Len(last.result) :
          last.result[i].isActive /\ last.result[i].expiresAt > now

\* C16 (as claimed): every record in the Map with isActive true has
\* expiresAt > now.
C16_ActiveMeansUnexpired ==
    \A d \in Records(activeDelegations) : d.isActive => d.expiresAt > now

\* C17: an id whose record was deleted from the Map is never in the Map
\* again, and no step sets the isActive of a record in the Map back to true
\* or moves its expiresAt later.
C17_NeverResurrected ==
    /\ [](Ids(activeDelegations) \cap removed = {})
    /\ [][\A d \in Records(activeDelegations), e \in Records(activeDelegations') :
            d.id = e.id => /\ e.isActive => d.isActive
                           /\ e.expiresAt <= d.expiresAt]_vars

\* A request was approved after a record had been deleted from the Map.
C17_Witness ==
    /\ last.op = "process"
    /\ last.result.status = "APPROVED"
    /\ removed # {}
    /\ MapHas(activeDelegations, last.result.policyKeyId)

\* C18 (as claimed): once isQuotaExceeded has found a counter of a record at
\* its limit, that record is no longer in the Map.
C18_ExhaustedIsRevoked ==
    (last.op = "isQuotaExceeded" /\ last.result = TRUE)
    => ~MapHas(activeDelegations, last.args.id)

\* A revokeDelegation call for id is suspended at one of its remote calls.
MidRevocation(id) ==
    \E t \in Tasks :
        /\ tasks[t].op \in {"revoke", "emergency"}
        /\ tasks[t].pc \in {"awaitDeleteApiKey", "awaitDeletePolicy"}
        /\ tasks[t].id = id

\* C19 (as claimed): an updateQuotaUsage call made for an id while a
\* revokeDelegation call for that id is suspended at the platform returns
\* false.
C19_UpdateDuringRevokeRejected ==
    (last.op = "updateQuotaUsage" /\ MidRevocation(last.args.id))
    => last.result = FALSE

\* The clauses of condition c that are a permission group.
PermissionGroups(c) == {i \in 1..Len(c) : c[i].kind = "anyOf"}

\* C20 (as claimed): the condition compiled from a scope without permissions
\* holds a permission group, and no alternative of that group can be true.
C20_EmptyPermissionsFailClosed ==
    (condition # NotCompiled /\ scope.permissions = <<>>)
    => /\ PermissionGroups(condition) # {}
       /\ \A i \in PermissionGroups(condition) :
             \A j \in 1..Len(condition[i].alternatives) :
                condition[i].alternatives[j].kind = "false"

\* The allow-list clauses of condition c.
AllowLists(c) ==
    {i \in 1..Len(c) : c[i].kind \in {"allInstructionProgramsIn", "allTransferMintsIn"}}

\* C21 (as claimed): no allow-list of a compiled condition names an
\* identifier twice.
C21_AllowListsHaveNoDuplicates ==
    \A i \in AllowLists(condition) :
        \A j, k \in 1..Len(condition[i].list) :
            condition[i].list[j] = condition[i].list[k] => j = k

\* The time restrictions of condition c.
ExpiryClauses(c) == {i \in 1..Len(c) : c[i].kind = "nowBefore"}

\* C22: a condition compiled at clock value now holds exactly one time
\* restriction, and its point in time is now in whole seconds plus the
\* scope's duration.
C22_OneAbsoluteExpiryClause ==
    [][BuildConditionFromScope
       => /\ Cardinality(ExpiryClauses(condition')) = 1
          /\ \A i \in ExpiryClauses(condition') :
                condition'[i].seconds = (now \div MsPerSecond) + scope.duration]_vars

\* Compiled one second after the epoch for a duration of one second.
C22_Witness ==
    /\ condition # NotCompiled
    /\ scope.duration = 1
    /\ \E i \in ExpiryClauses(condition) : condition[i].seconds = 2

Statuses == {"APPROVED", "REJECTED"}

Reasons == {"Invalid or unverified agent", "Internal error processing request"}

\* C23: a processDelegationRequest call returns, whatever its remote calls
\* answer; what it returns has status APPROVED or REJECTED; a REJECTED answer
\* carries a reason and leaves the Map as it was when the call was made.
C23_AlwaysAStructuredAnswer ==
    /\ [](last.op = "process"
          => /\ "status" \in DOMAIN last.result
             /\ last.result.status \in Statuses
             /\ last.result.status = "REJECTED"
                => /\ "reason" \in DOMAIN last.result
                   /\ last.result.reason \in Reasons
                   /\ activeDelegations = last.pre)
    /\ ((\E t \in Tasks : tasks[t].op = "process") ~> (last.op = "process"))

\* createApiKey threw after createPolicy had succeeded; the record stored
\* before is still the only one.
C23_Witness ==
    /\ last.op = "process"
    /\ last.result = [status |-> "REJECTED", reason |-> "Internal error processing request"]
    /\ Len(last.calls) = 2
    /\ ~last.calls[2].ok
    /\ Len(activeDelegations) = 1

\* C24: the step in which processDelegationRequest returns APPROVED adds
\* exactly one record to the Map, under the returned policyKeyId, with
\* isActive true, the request's agentId, the scope's permissions, zero quota
\* counters and expiresAt = now + duration (in milliseconds), the expiresAt
\* returned; the records already in the Map stay as they were.
C24_ApprovedStoresOneRecord ==
    [][(last'.op = "process" /\ last'.result.status = "APPROVED")
       => LET n == Len(activeDelegations)
              d == activeDelegations'[n + 1]
          IN  /\ Len(activeDelegations') = n + 1
              /\ SubSeq(activeDelegations', 1, n) = activeDelegations
              /\ d.id = last'.result.policyKeyId
              /\ d.id \notin Ids(activeDelegations)
              /\ d.isActive
              /\ d.agentId = last'.args.agentId
              /\ d.permissions = scope.permissions
              /\ d.quotaUsed = [daily |-> 0, weekly |-> 0, monthly |-> 0]
              /\ d.expiresAt = now + scope.duration * MsPerSecond
              /\ d.expiresAt = last'.result.expiresAt]_vars

\* A second request, for two permissions, was approved after the clock had
\* advanced.
C24_Witness ==
    /\ last.op = "process"
    /\ last.result.status = "APPROVED"
    /\ Len(activeDelegations) = 2
    /\ Len(activeDelegations[2].permissions) = 2
    /\ activeDelegations[2].expiresAt > scope.duration * MsPerSecond

\* C25 (as claimed): a request whose scope.duration is not positive makes no
\* remote call: none is in flight at the platform for it and it returns
\* having made none.
C25_InvalidScopeMakesNoCall ==
    /\ \A t \in Tasks : tasks[t].op = "process" => tasks[t].args.duration > 0
    /\ (last.op = "process" /\ last.calls # <<>>) => last.args.duration > 0

\* The kinds of the clauses of condition c, in order.
Kinds(c) == [i \in 1..Len(c) |-> c[i].kind]

\* C26 (as claimed): a compiled condition is, in this order, the instruction
\* ceiling of 10, the permission group, the program allow-list if
\* scope.programs is not empty, the token allow-list if scope.tokens is not
\* empty, and the time restriction.
C26_ClausesInOrder ==
    condition # NotCompiled
    => /\ Kinds(condition) =
             <<"instructionCountAtMost", "anyOf">>
             \o (IF scope.programs # <<>> THEN <<"allInstructionProgramsIn">> ELSE <<>>)
             \o (IF scope.tokens # <<>> THEN <<"allTransferMintsIn">> ELSE <<>>)
             \o <<"nowBefore">>
       /\ condition[1].max = MaxInstructions

\* The actions named in the permissions of scope s.
Actions(s) == {s.permissions[i].action : i \in 1..Len(s.permissions)}

\* C27 (as claimed): the permission group of a compiled condition holds one
\* alternative for each action named in the scope, and no more.
C27_OneAlternativePerAction ==
    \A i \in PermissionGroups(condition) :
        Len(condition[i].alternatives) = Cardinality(Actions(scope))

\* The point in time, in seconds, of the time restriction of condition c.
ExpirySeconds(c) == c[CHOOSE i \in ExpiryClauses(c) : TRUE].seconds

\* C28: for every record in the Map, the time restriction of the policy
\* condition compiled for its request is, in milliseconds, not later than the
\* record's expiresAt; and when cleanupExpiredDelegations deletes a record,
\* the time restriction of that policy condition is already false.
C28_PolicyExpiresNoLaterThanRecord ==
    /\ [](\A d \in Records(activeDelegations), g \in createdFor :
            g[1] = d.id => ExpirySeconds(g[3]) * MsPerSecond <= d.expiresAt)
    /\ [][last'.op = "cleanupExpiredDelegations"
          => \A g \in createdFor :
                g[1] \in Ids(activeDelegations) \ Ids(activeDelegations')
                => ~((now \div MsPerSecond) < ExpirySeconds(g[3]))]_vars

\* The sweep deleted a record whose key and policy are still live at the
\* platform; the policy's time restriction is now() < 1.
C28_Witness ==
    /\ last.op = "cleanupExpiredDelegations"
    /\ \E g \in createdFor :
          /\ g[1] \in removed
          /\ g[1] \in liveKeys
          /\ g[2] \in livePolicies
          /\ ExpirySeconds(g[3]) = 1

\* Task t has sent deleteApiKey for a record and has not answered yet.
Revoking(t) ==
    /\ tasks[t].op \in {"revoke", "emergency"}
    /\ tasks[t].pc \in {"awaitDeleteApiKey", "awaitDeletePolicy"}

\* C29 (as claimed): no two calls in flight have each sent a deleteApiKey for
\* the same id.
C29_OneRevocationPerId ==
    \A t, u \in Tasks :
        (t # u /\ Revoking(t) /\ Revoking(u)) => tasks[t].id # tasks[u].id

\* C30 (as claimed): a request in flight since before emergencyRevokeAll was
\* called is not approved right after emergencyRevokeAll has returned with
\* failed = 0.
C30_NoGrantPastTheKillSwitch ==
    [][(last.op = "emergency" /\ last.result.failed = 0)
       => ~(last'.op = "process" /\ last'.result.status = "APPROVED")]_vars
====
